---- MODULE Spec2Model ----
(***************************************************************************)
(* A model of the run orchestrator of api.js: Api.prototype.run and the    *)
(* event handlers it installs on every forked test file.                   *)
(*                                                                         *)
(* `api` holds the fields of the Api object.  The locals that the          *)
(* callbacks of one run() call close over (files, tests, statsCount,       *)
(* counted, the result arrays of Promise.map) are kept per call in         *)
(* cl[r].  A forked test file (lib/fork, outside api.js) is an environment *)
(* that emits the events and settles the promise of its contract.          *)
(*                                                                         *)
(* One action is one turn of the event loop: the event handler, and then   *)
(* every promise callback that has become runnable, in registration order  *)
(* (bluebird runs them before the next event is delivered).                *)
(***************************************************************************)
EXTENDS Integers, Sequences, FiniteSets, TLC

\* Bounds of the model.
MaxFiles == 2
MaxTests == 2
MaxRuns == 2
MaxReports == 2

Slots == 1..MaxRuns
NoFile == 0

VARIABLES
    api,        \* the fields of the Api object that _reset initialises
    options,    \* this.options, as far as run() reads it
    cl,         \* per run() call: the promise chain and the locals of its callbacks
    out,        \* what has left the Api since run(): `test` events, thrown errors
    runs        \* the number of run() calls made so far

vars == <<api, options, cl, out, runs>>

----------------------------------------------------------------------------
\* Values.

TitleName == <<"t1", "t2", "t3", "t4">>
FileName == <<"a", "b", "c", "d">>
Separator == " > "

NoError ==
    [present |-> FALSE, name |-> "", powerAssertContext |-> FALSE, formattable |-> TRUE,
     originalMessage |-> <<>>, message |-> <<>>]

ThrownError(name, msg) ==
    [present |-> TRUE, name |-> name, powerAssertContext |-> FALSE, formattable |-> TRUE,
     originalMessage |-> <<>>, message |-> msg]

\* The `test` events the k-th test of file f may be reported with: a pass, a
\* skip, or a failure.
TestEvents(f, k) ==
    { [type |-> "test", file |-> f, title |-> <<TitleName[k]>>, skip |-> s, error |-> NoError] :
        s \in BOOLEAN } \cup
    { [type |-> "test", file |-> f, title |-> <<TitleName[k]>>, skip |-> FALSE,
       error |-> ThrownError("Error", <<"m">>)] }

\* A failure of an assertion that power-assert captured: the context the
\* formatter is given (which it may be unable to render), and the message the
\* assertion was called with, if any.
CapturedError(name, original, formattable) ==
    [present |-> TRUE, name |-> name, powerAssertContext |-> TRUE,
     formattable |-> formattable, originalMessage |-> original, message |-> <<"m">>]

\* Every kind of `test` event: those above, and the failures of an assertion,
\* with and without a captured context.
AllTestEvents(f, k) ==
    TestEvents(f, k) \cup
    { [type |-> "test", file |-> f, title |-> <<TitleName[k]>>, skip |-> FALSE, error |-> e] :
        e \in { ThrownError("AssertionError", <<"m">>),
                CapturedError("AssertionError", <<"o">>, TRUE),
                CapturedError("AssertionError", <<>>, TRUE),
                CapturedError("Error", <<>>, TRUE),
                CapturedError("AssertionError", <<>>, FALSE) } }

\* No `test` event yet.
NoTest ==
    [type |-> "test", file |-> NoFile, title |-> <<>>, skip |-> FALSE, error |-> NoError]

\* Nothing has left the Api.  tests: the `test` events emitted; thrown: the
\* errors thrown out of a handler of the Api; listening: `test` has a
\* listener, and then last: the test object it was given last, before: that
\* object as _handleTest received it, times: how often _handleTest has been
\* given that object.
NoOutput ==
    [tests |-> 0, thrown |-> 0, listening |-> FALSE,
     last |-> NoTest, before |-> NoTest, times |-> 0]

ZeroStats == [passCount |-> 0, skipCount |-> 0, failCount |-> 0]

IsPass(t) == ~t.error.present /\ ~t.skip
IsSkip(t) == ~t.error.present /\ t.skip
IsFail(t) == t.error.present

\* The terminal result a forked file resolves run() with, after the tests it
\* has reported.
SessionResult(sent) ==
    [stats |-> [passCount |-> Len(SelectSeq(sent, IsPass)),
                skipCount |-> Len(SelectSeq(sent, IsSkip)),
                failCount |-> Len(SelectSeq(sent, IsFail))],
     tests |-> sent]

\* A forked file right after fork(): nothing emitted, its promise pending.
NewSession ==
    [stats |-> FALSE, testCount |-> 0, promise |-> "pending", sent |-> <<>>,
     runCalls |-> 0, exceptions |-> 0, rejections |-> 0]

\* One slot of a Promise.map / mapSeries result array.
\* (rank: the position of this result in the order the mappers completed).
Unsettled ==
    [settled |-> FALSE, caught |-> FALSE, rank |-> 0, stats |-> ZeroStats, tests |-> <<>>]

\* The locals of a run() call that has not been made.
IdleRun ==
    [phase |-> "idle", files |-> 0, statsCount |-> 0, counted |-> <<>>,
     sess |-> <<>>, results |-> <<>>,
     readyEmits |-> 0, readyTestCount |-> 0, readyStatsSum |-> 0]

----------------------------------------------------------------------------
\* The Api object.

\* _reset without its line 64, the error list.
resetKeepingErrors(a) ==
    [rejectionCount |-> 0, exceptionCount |-> 0,
     passCount |-> 0, skipCount |-> 0, failCount |-> 0,
     fileCount |-> 0, testCount |-> 0,
     errors |-> IF "errors" \in DOMAIN a THEN a.errors ELSE <<>>,
     stats |-> <<>>, tests |-> <<>>,
     explicitTitles |-> FALSE]

\* _reset
reset(a) ==
    [rejectionCount |-> 0, exceptionCount |-> 0,
     passCount |-> 0, skipCount |-> 0, failCount |-> 0,
     fileCount |-> 0, testCount |-> 0,
     errors |-> <<>>, stats |-> <<>>, tests |-> <<>>,
     explicitTitles |-> FALSE]

\* _handleExceptions without its first line, the count.
handleExceptionsUncounted(a, name, msg, file) ==
    [a EXCEPT !.errors = Append(@, [type |-> "exception", file |-> file, title |-> <<>>,
                                    skip |-> FALSE, error |-> ThrownError(name, msg)])]

\* _handleExceptions
handleExceptions(a, name, msg, file) ==
    [a EXCEPT !.exceptionCount = @ + 1,
              !.errors = Append(@, [type |-> "exception", file |-> file, title |-> <<>>,
                                    skip |-> FALSE, error |-> ThrownError(name, msg)])]

\* The k rejections of one `unhandledRejections` event of a file.
Rejections(k, file) ==
    [n \in 1..k |-> [type |-> "rejection", file |-> file, title |-> <<>>, skip |-> FALSE,
                     error |-> ThrownError("Error", <<"rejected">>)]]

\* _handleRejections counting the event, not its rejections.
handleRejectionsPerEvent(a, k, file) ==
    [a EXCEPT !.rejectionCount = @ + 1,
              !.errors = @ \o Rejections(k, file)]

\* _handleRejections
handleRejections(a, k, file) ==
    [a EXCEPT !.rejectionCount = @ + k,
              !.errors = @ \o Rejections(k, file)]

\* _handleStats
handleStats(a, reported) == [a EXCEPT !.testCount = @ + reported]

\* _prefixTitle without its lines 139-141, the case of the single file.
prefixTitleAlways(a, file) == <<FileName[file], Separator>>

\* _prefixTitle: empty for a single file without explicit titles, otherwise
\* the path segments of the file joined by the separator, plus a trailing one.
prefixTitle(a, file) ==
    IF a.fileCount = 1 /\ ~a.explicitTitles
    THEN <<>>
    ELSE <<FileName[file], Separator>>

formatter(context) == <<"formatted">>

\* Whether formatter(context) throws instead of returning.
formatterThrows(err) == ~err.formattable

\* _handleTest, lines 115-130: the test object as the handler rewrites it.
handledTest(a, test) ==
    LET titled == [test EXCEPT !.title = prefixTitle(a, test.file) \o @]
        err == test.error
        rebuilt ==
            IF err.powerAssertContext
            THEN IF err.originalMessage # <<>>
                 THEN err.originalMessage \o <<" ">> \o formatter(err)
                 ELSE formatter(err)
            ELSE err.message
        final ==
            IF err.name # "AssertionError"
            THEN <<"failed with \"">> \o rebuilt \o <<"\"">>
            ELSE rebuilt
    IN  IF err.present
        THEN [titled EXCEPT !.error.message = final]
        ELSE titled

\* _handleTest on W, the Api object and what has left it: an error thrown by
\* the formatter leaves the handler at line 119, before the push and the emit.
handleTest(W, test) ==
    IF test.error.present /\ test.error.powerAssertContext /\ formatterThrows(test.error)
    THEN [W EXCEPT !.out.thrown = @ + 1]
    ELSE LET h == handledTest(W.api, test)
         IN  [W EXCEPT !.api.errors = IF test.error.present THEN Append(@, h) ELSE @,
                       !.out.tests = @ + 1,
                       !.out.last = IF W.out.listening THEN h ELSE @,
                       !.out.before = IF W.out.listening THEN test ELSE @,
                       !.out.times = IF W.out.listening THEN 1 ELSE @]

\* sum with `result = item[key]` for `result += item[key]`.
sumOverwriting(arr, key) ==
    IF arr = <<>> THEN 0 ELSE arr[Len(arr)][key]

RECURSIVE sum(_, _)
sum(arr, key) ==
    IF arr = <<>> THEN 0 ELSE Head(arr)[key] + sum(Tail(arr), key)

RECURSIVE flatten(_)
flatten(lists) ==
    IF lists = <<>> THEN <<>> ELSE Head(lists) \o flatten(Tail(lists))

\* The fold over the results in the order the files completed.
foldInCompletionOrder(a, res) ==
    LET done == [k \in 1..Len(res) |-> res[CHOOSE i \in 1..Len(res) : res[i].rank = k]]
        st == [i \in 1..Len(done) |-> done[i].stats]
    IN  [a EXCEPT !.stats = st,
                  !.tests = flatten([i \in 1..Len(done) |-> done[i].tests]),
                  !.passCount = sum(st, "passCount"),
                  !.skipCount = sum(st, "skipCount"),
                  !.failCount = sum(st, "failCount")]

\* The last callback of run(), lines 232-247: assemble the results.
fold(a, res) ==
    LET st == [i \in 1..Len(res) |-> res[i].stats]
    IN  [a EXCEPT !.stats = st,
                  !.tests = flatten([i \in 1..Len(res) |-> res[i].tests]),
                  !.passCount = sum(st, "passCount"),
                  !.skipCount = sum(st, "skipCount"),
                  !.failCount = sum(st, "failCount")]

----------------------------------------------------------------------------
\* The barrier and the mapping over the files, lines 189-230.  S is the
\* Api object, the locals of one run() call, and what has left the Api.

\* The mapping that ignores options.serial.
MapMethodAlwaysMap(serialOption) == "map"

MapMethod(serialOption) == IF serialOption THEN "mapSeries" ELSE "map"

NewMap(method, n) == [method |-> method, res |-> [i \in 1..n |-> Unsettled]]

\* Whether the mapper of Promise[method] has been invoked for index i.
Invoked(map, i) ==
    \/ map.method = "map"
    \/ \A j \in 1..(i - 1) : map.res[j].settled

\* The barrier with the count taken before its increment.
BarrierReachedLate(count, n) == count = n + 1

\* The barrier with >= for ===.
BarrierReachedOrPassed(count, n) == count >= n

\* ++statsCount === self.fileCount
BarrierReached(count, n) == count = n

\* The testCount of the `stats` events received by a run so far.
StatsSum(ss) ==
    sum([i \in 1..Len(ss) |-> [n |-> IF ss[i].stats THEN ss[i].testCount ELSE 0]], "n")

\* self.emit('ready'): a listener reads self.testCount there.
EmitReady(S) ==
    [S EXCEPT !.c.readyEmits = @ + 1,
              !.c.readyTestCount = S.api.testCount,
              !.c.readyStatsSum = StatsSum(S.c.sess)]

\* resolve(Promise[method](files, ...)): the mapper calls tests[index].run()
\* for every index (map) or for the first one (mapSeries).
StartMap(S, method) ==
    LET n == S.c.files
    IN  [S EXCEPT !.c.results = Append(@, NewMap(method, n)),
                  !.c.sess = [j \in 1..n |->
                                 IF method = "map" \/ j = 1
                                 THEN [@[j] EXCEPT !.runCalls = @ + 1]
                                 ELSE @[j]]]

\* tryRun without its test of the count: `ready` and the mapping at every
\* signal.
tryRunAtEverySignal(S, i, opts) ==
    StartMap(EmitReady([S EXCEPT !.c.statsCount = @ + 1]), MapMethod(opts.serial))

tryRun(S, i, opts) ==
    IF S.c.counted[i]
    THEN S
    ELSE LET S1 == [S EXCEPT !.c.statsCount = @ + 1]
         IN  IF BarrierReached(S1.c.statsCount, S1.api.fileCount)
             THEN StartMap(EmitReady(S1), MapMethod(opts.serial))
             ELSE S1

\* The listeners of `stats` with tryRun registered before _handleStats.
onStatsTryRunFirst(S, i, reported, opts) ==
    [tryRun(S, i, opts) EXCEPT !.api = handleStats(@, reported)]

\* The listeners of `stats`, in the order they were registered: _handleStats
\* (line 78), then tryRun (line 227).
onStats(S, i, reported, opts) ==
    tryRun([S EXCEPT !.api = handleStats(@, reported)], i, opts)

\* The mapper without its catch handler: the rejection of run() is its own.
MapperOnRejectUncaught ==
    [rejects |-> TRUE, report |-> FALSE, stats |-> ZeroStats, tests |-> <<>>]

\* The catch handler without its call of _handleExceptions.
MapperOnRejectSilent ==
    [rejects |-> FALSE, report |-> FALSE, stats |-> ZeroStats, tests |-> <<>>]

\* The value of the mapper's promise when tests[index].run() rejects: the
\* catch handler reports the exception and returns an empty result.
MapperOnReject ==
    [rejects |-> FALSE, report |-> TRUE, stats |-> ZeroStats, tests |-> <<>>]

\* mapSeries invokes the mapper of the next file once this one has settled.
CallNext(ss, map, i) ==
    IF map.method = "mapSeries" /\ i < Len(map.res)
    THEN [ss EXCEPT ![i + 1].runCalls = @ + 1]
    ELSE ss

\* The callback on tests[i].run() of map m, once that promise has settled.
Settle(S, m, i) ==
    LET map == S.c.results[m]
        s == S.c.sess[i]
        result == SessionResult(s.sent)
        onReject == MapperOnReject
        rank == 1 + Cardinality({j \in 1..Len(map.res) : map.res[j].settled})
    IN  IF s.promise = "resolved"
        THEN [S EXCEPT !.c.results[m].res[i] =
                           [settled |-> TRUE, caught |-> FALSE, rank |-> rank,
                            stats |-> result.stats, tests |-> result.tests],
                       !.c.sess = CallNext(@, map, i)]
        ELSE [S EXCEPT !.api = IF onReject.report
                                THEN handleExceptions(@, "Error", <<"crashed">>, i)
                                ELSE @,
                       !.c.results[m].res[i] =
                           [settled |-> TRUE, caught |-> TRUE, rank |-> rank,
                            stats |-> onReject.stats, tests |-> onReject.tests],
                       !.c.sess = IF onReject.rejects THEN @ ELSE CallNext(@, map, i),
                       !.c.phase = IF onReject.rejects /\ m = 1 /\ @ = "pending"
                                   THEN "rejected" ELSE @]

\* The mapper callbacks that can run: run() was called and has settled.
Runnable(c) ==
    { p \in (1..Len(c.results)) \X (1..c.files) :
        /\ Invoked(c.results[p[1]], p[2])
        /\ ~c.results[p[1]].res[p[2]].settled
        /\ c.sess[p[2]].promise # "pending" }

AllSettled(map) == \A i \in 1..Len(map.res) : map.res[i].settled

\* Run the runnable callbacks until none is left; when the first map has all
\* its results, the chain of run() continues with the fold and resolves.
RECURSIVE Drain(_)
DrainFrom(S) ==
    LET todo == Runnable(S.c)
        p == CHOOSE q \in todo :
                \A o \in todo : q[1] < o[1] \/ (q[1] = o[1] /\ q[2] <= o[2])
    IN  IF todo # {}
        THEN Drain(Settle(S, p[1], p[2]))
        ELSE IF /\ S.c.phase = "pending"
                /\ Len(S.c.results) >= 1
                /\ AllSettled(S.c.results[1])
             THEN [S EXCEPT !.api = fold(@, S.c.results[1].res),
                            !.c.phase = "done"]
             ELSE S

\* The same, from the state that S0 evaluates to.
Drain(S0) == CHOOSE T \in {DrainFrom(S) : S \in {S0}} : TRUE

----------------------------------------------------------------------------
\* State and actions.

Init ==
    /\ api = reset([none |-> TRUE])
    /\ options \in [serial : BOOLEAN]
    /\ cl = [r \in Slots |-> IdleRun]
    /\ out = NoOutput
    /\ runs = 0

\* The same Api with a listener of `test`.
InitListened ==
    /\ api = reset([none |-> TRUE])
    /\ options \in [serial : BOOLEAN]
    /\ cl = [r \in Slots |-> IdleRun]
    /\ out = [NoOutput EXCEPT !.listening = TRUE]
    /\ runs = 0

InFlight(r) == cl[r].phase \in {"resolving", "pending"}

\* A finished run none of whose callbacks can run any more: every forked
\* file has settled and every mapper has returned.  Its locals are garbage.
Dead(r) ==
    /\ cl[r].phase = "done"
    /\ \A i \in 1..cl[r].files : cl[r].sess[i].promise # "pending"
    /\ Runnable(cl[r]) = {}

\* run(files), lines 161-166: reset the fields and start resolving the paths.
RunBody(explicit) ==
    LET kept == [r \in Slots |-> IF Dead(r) THEN IdleRun ELSE cl[r]]
        free == {r \in Slots : kept[r].phase = "idle"}
        slot == CHOOSE r \in free : \A q \in free : r <= q
    IN  /\ free # {}
        /\ out.thrown = 0
        /\ out' = [NoOutput EXCEPT !.listening = out.listening]
        /\ api' = [reset(api) EXCEPT !.explicitTitles = explicit]
        /\ cl' = [kept EXCEPT ![slot].phase = "resolving"]
        /\ runs' = runs + 1
        /\ UNCHANGED options

\* run() called while no earlier run() of this Api is in flight.
Run ==
    /\ runs < MaxRuns
    /\ \A r \in Slots : ~InFlight(r)
    /\ \E explicit \in BOOLEAN : RunBody(explicit)

\* run() called while an earlier run() of this Api is still in flight.
RunReentrant ==
    /\ runs < MaxRuns
    /\ \E r \in Slots : InFlight(r)
    /\ \E explicit \in BOOLEAN : RunBody(explicit)

\* The forked files that exist, and the tests they have announced: the model
\* keeps at most MaxFiles files and MaxTests tests at a time.
RECURSIVE Forked(_)
Forked(r) == IF r = 0 THEN 0 ELSE cl[r].files + Forked(r - 1)

RECURSIVE Announced(_)
Announced(r) == IF r = 0 THEN 0 ELSE StatsSum(cl[r].sess) + Announced(r - 1)

\* The rejections and the uncaught exceptions the forked files have reported:
\* the model keeps at most MaxReports of them at a time.
RECURSIVE ReportsOf(_)
ReportsOf(ss) ==
    IF ss = <<>> THEN 0
    ELSE Head(ss).exceptions + Head(ss).rejections + ReportsOf(Tail(ss))

RECURSIVE Reported(_)
Reported(r) == IF r = 0 THEN 0 ELSE ReportsOf(cl[r].sess) + Reported(r - 1)

\* One turn of the event loop on run r ends in state S; there is none once
\* an error thrown out of a handler has ended the process.
Turn(r, S) ==
    LET T == Drain(S)
    IN  /\ out.thrown = 0
        /\ api' = T.api
        /\ cl' = [cl EXCEPT ![r] = T.c]
        /\ out' = T.out
        /\ UNCHANGED <<options, runs>>

\* The callback of handlePaths(...).then, lines 170-231, with n files found.
Dispatch ==
    \E r \in Slots, n \in 0..MaxFiles :
        /\ cl[r].phase = "resolving"
        /\ Forked(MaxRuns) + n <= MaxFiles
        /\ IF n = 0
           THEN Turn(r, [api |-> handleExceptions(api, "AvaError",
                                     <<"Couldn't find any files to test">>, NoFile),
                         c |-> [cl[r] EXCEPT !.phase = "pending",
                                             !.results = <<NewMap("none", 0)>>],
                         out |-> out])
           ELSE Turn(r, [api |-> [api EXCEPT !.fileCount = n],
                         c |-> [cl[r] EXCEPT !.phase = "pending",
                                             !.files = n,
                                             !.sess = [i \in 1..n |-> NewSession],
                                             !.counted = [i \in 1..n |-> FALSE],
                                             !.statsCount = 0],
                         out |-> out])

\* The forked file i of run r is alive: its promise has not settled.
Live(r, i) ==
    /\ cl[r].phase \in {"pending", "done", "rejected"}
    /\ i \in 1..cl[r].files
    /\ cl[r].sess[i].promise = "pending"

\* A forked file emits `stats`, once, with the number of its tests.
SessionStats ==
    \E r \in Slots, i \in 1..MaxFiles, n \in 0..MaxTests :
        /\ Live(r, i)
        /\ ~cl[r].sess[i].stats
        /\ Announced(MaxRuns) + n <= MaxTests
        /\ Turn(r, onStats([api |-> api,
                            c |-> [cl[r] EXCEPT !.sess[i].stats = TRUE,
                                                !.sess[i].testCount = n],
                            out |-> out],
                           i, n, options))

\* The promise of a forked file rejects, the file having failed
\* catastrophically: test.catch(tryRun), line 228, then the catch handlers
\* of the run() calls made on it.
SessionFail ==
    \E r \in Slots, i \in 1..MaxFiles :
        /\ Live(r, i)
        /\ Turn(r, tryRun([api |-> api,
                           c |-> [cl[r] EXCEPT !.sess[i].promise = "rejected"],
                           out |-> out],
                          i, options))

\* A forked file that was told to run emits `test`: _handleTest.
SessionTest ==
    \E r \in Slots, i \in 1..MaxFiles :
        /\ Live(r, i)
        /\ cl[r].sess[i].runCalls > 0
        /\ cl[r].sess[i].stats
        /\ Len(cl[r].sess[i].sent) < cl[r].sess[i].testCount
        /\ \E t \in TestEvents(i, Len(cl[r].sess[i].sent) + 1) :
            LET W == handleTest([api |-> api, out |-> out], t)
            IN  Turn(r, [api |-> W.api,
                         c |-> [cl[r] EXCEPT !.sess[i].sent = Append(@, t)],
                         out |-> W.out])

\* A forked file emits `uncaughtException`, at most once: _handleExceptions.
SessionException ==
    \E r \in Slots, i \in 1..MaxFiles :
        /\ Live(r, i)
        /\ cl[r].sess[i].exceptions = 0
        /\ Reported(MaxRuns) + 1 <= MaxReports
        /\ Turn(r, [api |-> handleExceptions(api, "Error", <<"uncaught">>, i),
                    c |-> [cl[r] EXCEPT !.sess[i].exceptions = @ + 1],
                    out |-> out])

\* A forked file emits `unhandledRejections` with k rejections:
\* _handleRejections.
SessionRejections ==
    \E r \in Slots, i \in 1..MaxFiles, k \in 0..MaxReports :
        /\ Live(r, i)
        /\ Reported(MaxRuns) + k <= MaxReports
        /\ Turn(r, [api |-> handleRejections(api, k, i),
                    c |-> [cl[r] EXCEPT !.sess[i].rejections = @ + k],
                    out |-> out])

\* The promise of a forked file resolves with its results, all its tests
\* reported.
SessionResolve ==
    \E r \in Slots, i \in 1..MaxFiles :
        /\ Live(r, i)
        /\ cl[r].sess[i].runCalls > 0
        /\ cl[r].sess[i].stats
        /\ Len(cl[r].sess[i].sent) = cl[r].sess[i].testCount
        /\ Turn(r, [api |-> api,
                    c |-> [cl[r] EXCEPT !.sess[i].promise = "resolved"],
                    out |-> out])

Next ==
    \/ Run
    \/ Dispatch
    \/ SessionStats
    \/ SessionFail
    \/ SessionTest
    \/ SessionResolve

Spec == Init /\ [][Next]_vars

\* What happens without the caller of the Api: the paths resolve, a forked
\* file reports, fails or finishes.
Progress ==
    \/ Dispatch
    \/ SessionStats
    \/ SessionFail
    \/ SessionTest
    \/ SessionResolve

\* The same runs when nothing that is due waits for ever: the event loop runs
\* every callback, and every forked file goes on until its promise has
\* settled.
SpecFair == Init /\ [][Next]_vars /\ WF_vars(Progress)

\* The same runs when the forked files may also emit `uncaughtException` and
\* `unhandledRejections`.
NextEvents == Next \/ SessionException \/ SessionRejections

SpecEvents == Init /\ [][NextEvents]_vars

\* The same Api when its caller may also call run() during a run.
NextReentrant == Next \/ RunReentrant

SpecReentrant == Init /\ [][NextReentrant]_vars

\* A forked file that was told to run emits the `test` of a failed assertion,
\* with or without the context power-assert has captured: _handleTest.
SessionAssertion ==
    \E r \in Slots, i \in 1..MaxFiles :
        /\ Live(r, i)
        /\ cl[r].sess[i].runCalls > 0
        /\ cl[r].sess[i].stats
        /\ Len(cl[r].sess[i].sent) < cl[r].sess[i].testCount
        /\ LET k == Len(cl[r].sess[i].sent) + 1
           IN  \E t \in AllTestEvents(i, k) \ TestEvents(i, k) :
                   LET W == handleTest([api |-> api, out |-> out], t)
                   IN  Turn(r, [api |-> W.api,
                                c |-> [cl[r] EXCEPT !.sess[i].sent = Append(@, t)],
                                out |-> W.out])

\* The same runs when the tests may also fail by an assertion, and `test` is
\* listened to.
NextTests == Next \/ SessionAssertion

SpecTests == InitListened /\ [][NextTests]_vars

\* _handleTest is given once more the test object it has just emitted.  The
\* error list holds that object, not a copy, and shows what is done to it.
HandleAgain ==
    /\ out.thrown = 0
    /\ out.times = 1
    /\ LET W == handleTest([api |-> api, out |-> out], out.last)
           seen == [k \in 1..Len(api.errors) |->
                       IF api.errors[k] = out.last THEN W.out.last ELSE api.errors[k]]
       IN  /\ api' = [W.api EXCEPT !.errors =
                          IF out.last.error.present THEN Append(seen, W.out.last) ELSE seen]
           /\ out' = [W.out EXCEPT !.times = 2]
    /\ UNCHANGED <<options, cl, runs>>

\* The same runs when a test object may be handled twice.
NextAgain == NextTests \/ HandleAgain

SpecAgain == InitListened /\ [][NextAgain]_vars

----------------------------------------------------------------------------
\* Vocabulary of the properties.

\* A forked file has signalled readiness: its `stats`, or its failure.
Signalled(s) == s.stats \/ s.promise = "rejected"

AllSignalled(r) == \A i \in 1..cl[r].files : Signalled(cl[r].sess[i])

\* run() of call r has resolved / has resolved after dispatching files.
Resolved(r) == cl[r].phase = "done"
Finished(r) == Resolved(r) /\ cl[r].files >= 1

\* The files of run r whose run() rejected.
Failed(r) == {i \in 1..cl[r].files : cl[r].sess[i].promise = "rejected"}

\* What a forked file hands to the fold: its own result, or nothing at all
\* when it failed catastrophically.
Terminal(s) ==
    IF s.promise = "rejected"
    THEN [stats |-> ZeroStats, tests |-> <<>>]
    ELSE SessionResult(s.sent)

RECURSIVE TerminalSum(_, _)
TerminalSum(ss, key) ==
    IF ss = <<>> THEN 0 ELSE Terminal(Head(ss)).stats[key] + TerminalSum(Tail(ss), key)

RECURSIVE TerminalTests(_)
TerminalTests(ss) ==
    IF ss = <<>> THEN <<>> ELSE Terminal(Head(ss)).tests \o TerminalTests(Tail(ss))

\* The positions of the error list holding an exception of the given file.
ExceptionsOf(file) ==
    {k \in 1..Len(api.errors) :
        api.errors[k].type = "exception" /\ api.errors[k].file = file}

ExceptionEntries == {k \in 1..Len(api.errors) : api.errors[k].type = "exception"}

----------------------------------------------------------------------------
\* C1: no forked file's run() is called before every file of the run has
\* signalled readiness (its first stats, or its failure) at least once.
BarrierBeforeRun ==
    \A r \in Slots : \A i \in 1..cl[r].files :
        cl[r].sess[i].runCalls > 0 => AllSignalled(r)

\* C2, as claimed: a run in which every dispatched file has signalled (none
\* being dispatched included) has emitted `ready` exactly once.
ReadyExactlyOnce ==
    \A r \in Slots :
        (cl[r].phase \in {"pending", "done"} /\ AllSignalled(r)) => cl[r].readyEmits = 1

\* C2, amended: with at least one file, `ready` is never emitted twice and has
\* been emitted once as soon as every file has signalled; with no file, it is
\* never emitted.
ReadyOncePerDispatch ==
    \A r \in Slots :
        /\ cl[r].readyEmits <= 1
        /\ (cl[r].files >= 1 /\ AllSignalled(r)) => cl[r].readyEmits = 1
        /\ Finished(r) => cl[r].readyEmits = 1
        /\ cl[r].files = 0 => cl[r].readyEmits = 0

\* A run of two files has resolved; one file signalled twice, by its stats
\* and by its failure.
ReadyOnceWitness ==
    \E r \in Slots :
        /\ Finished(r) /\ cl[r].files = 2 /\ cl[r].readyEmits = 1
        /\ \E i \in 1..2 : cl[r].sess[i].stats /\ cl[r].sess[i].promise = "rejected"

\* C3: once run() has resolved, the error list holds exactly one exception
\* per failed file, tagged with it, and no other exception; exceptionCount
\* is the number of failed files; a failed file contributes zero stats and
\* no tests, every other file its full result.
FaultIsolation ==
    \A r \in Slots : Finished(r) =>
        /\ \A i \in 1..cl[r].files :
              Cardinality(ExceptionsOf(i)) = IF i \in Failed(r) THEN 1 ELSE 0
        /\ Cardinality(ExceptionEntries) = Cardinality(Failed(r))
        /\ api.exceptionCount = Cardinality(Failed(r))
        /\ Len(api.stats) = cl[r].files
        /\ \A i \in 1..cl[r].files :
              /\ i \in Failed(r) =>
                    api.stats[i] = ZeroStats /\ cl[r].results[1].res[i].tests = <<>>
              /\ i \notin Failed(r) =>
                    /\ api.stats[i] = SessionResult(cl[r].sess[i].sent).stats
                    /\ cl[r].results[1].res[i].tests = cl[r].sess[i].sent

\* A resolved run of two files: one failed, the other reported a test.
FaultIsolationWitness ==
    \E r \in Slots :
        /\ Finished(r) /\ cl[r].files = 2
        /\ \E i, j \in 1..2 :
              /\ i \in Failed(r) /\ j \notin Failed(r)
              /\ Len(cl[r].sess[j].sent) >= 1

\* C4: once run() has resolved, passCount, skipCount and failCount are the
\* sums of the files' terminal stats, a failed file counting for nothing.
CountsAreSums ==
    \A r \in Slots : Resolved(r) =>
        /\ api.passCount = TerminalSum(cl[r].sess, "passCount")
        /\ api.skipCount = TerminalSum(cl[r].sess, "skipCount")
        /\ api.failCount = TerminalSum(cl[r].sess, "failCount")

\* A resolved serial run of two files, the first with a test that counted,
\* the second failed after reporting a test.
CountsAreSumsWitness ==
    \E r \in Slots :
        /\ Finished(r) /\ cl[r].files = 2 /\ options.serial
        /\ api.passCount + api.skipCount + api.failCount = 1
        /\ Len(cl[r].sess[1].sent) = 1
        /\ 2 \in Failed(r) /\ Len(cl[r].sess[2].sent) = 1

\* C5: once run() has resolved, the test list is the concatenation of the
\* files' result test lists in dispatch order.
TestsInDispatchOrder ==
    \A r \in Slots : Resolved(r) => api.tests = TerminalTests(cl[r].sess)

\* A resolved parallel run whose second file completed before its first, both
\* with a test.
TestsInDispatchOrderWitness ==
    \E r \in Slots :
        /\ Finished(r) /\ cl[r].files = 2 /\ ~options.serial
        /\ cl[r].results[1].res[2].rank < cl[r].results[1].res[1].rank
        /\ Len(api.tests) = 2

\* C6: in serial mode run() is not called on file i+1 until the run() of
\* file i has settled, and from then on file i reports no further test.
SerialOrder ==
    /\ [](\A r \in Slots : \A i \in 1..(cl[r].files - 1) :
            (options.serial /\ cl[r].sess[i + 1].runCalls > 0) =>
                /\ cl[r].sess[i].promise # "pending"
                /\ cl[r].results[1].res[i].settled)
    /\ [][\A r \in Slots : \A i \in 1..(cl[r].files - 1) :
            (options.serial /\ cl[r].sess[i + 1].runCalls > 0 /\ cl'[r].files = cl[r].files) =>
                cl'[r].sess[i].sent = cl[r].sess[i].sent]_vars

\* A serial run: the second file has been told to run after the first
\* reported its test and resolved.
SerialOrderWitness ==
    \E r \in Slots :
        /\ options.serial /\ cl[r].files = 2
        /\ cl[r].sess[2].runCalls > 0
        /\ cl[r].sess[1].promise = "resolved" /\ Len(cl[r].sess[1].sent) = 1

RunStateKept ==
    \A r \in Slots : (cl[r].phase = "pending" /\ cl[r].files >= 1) =>
        /\ api.fileCount = cl[r].files
        /\ api.testCount >= StatsSum(cl[r].sess)

\* The failing tests the forked files of a run have sent so far.
RECURSIVE FailuresSent(_)
FailuresSent(ss) ==
    IF ss = <<>> THEN 0 ELSE Len(SelectSeq(Head(ss).sent, IsFail)) + FailuresSent(Tail(ss))

\* The exceptions a run has recorded by itself: one for each file whose run()
\* rejected and has been caught, one for a run that found no file.
OwnExceptions(r) ==
    Cardinality({i \in 1..cl[r].files :
                    \E m \in 1..Len(cl[r].results) :
                        /\ i <= Len(cl[r].results[m].res)
                        /\ cl[r].results[m].res[i].caught})
    + (IF cl[r].phase \in {"pending", "done"} /\ cl[r].files = 0 THEN 1 ELSE 0)

\* C11: a run() called after an earlier run() has resolved works on fresh
\* fields: at every moment its counters, its error list and its test list
\* hold what its own forked files have produced, and nothing of the earlier run.
SecondRunStartsFresh ==
    \A r \in Slots :
        (runs >= 2 /\ cl[r].phase # "idle") =>
            /\ api.testCount = StatsSum(cl[r].sess)
            /\ api.rejectionCount = 0
            /\ api.exceptionCount = OwnExceptions(r)
            /\ Len(api.errors) = OwnExceptions(r) + FailuresSent(cl[r].sess)
            /\ \A k \in 1..Len(api.errors) :
                   api.errors[k].type = "test" =>
                       \E i \in 1..cl[r].files : \E j \in 1..Len(cl[r].sess[i].sent) :
                           /\ api.errors[k].file = i
                           /\ api.errors[k] = handledTest(api, cl[r].sess[i].sent[j])
            /\ IF Resolved(r)
               THEN /\ api.passCount = TerminalSum(cl[r].sess, "passCount")
                    /\ api.skipCount = TerminalSum(cl[r].sess, "skipCount")
                    /\ api.failCount = TerminalSum(cl[r].sess, "failCount")
                    /\ api.tests = TerminalTests(cl[r].sess)
               ELSE /\ api.passCount = 0 /\ api.skipCount = 0 /\ api.failCount = 0
                    /\ api.tests = <<>>

\* A second run() has resolved with a failing test and a passing one in its
\* lists, one file of it having crashed.
SecondRunWitness ==
    \E r \in Slots :
        /\ runs = 2 /\ Resolved(r)
        /\ Failed(r) # {}
        /\ Len(api.tests) = 2
        /\ \E k \in 1..Len(api.errors) : api.errors[k].type = "test"

\* C12: a forked file is counted at the barrier at most once, so that the
\* count of the files that are ready never exceeds the number of files, also
\* when a file emits `stats` and then fails.
MarkReadyIdempotent ==
    \A r \in Slots : cl[r].statsCount <= cl[r].files

\* C13: handling the object of a failing test a second time changes nothing
\* of it: its title and its error message are what the first handling made
\* them.
HandlingTwiceIsNoOp ==
    (out.times >= 2 /\ out.last.error.present) =>
        /\ out.last.title = out.before.title
        /\ out.last.error.message = out.before.error.message

\* The message of a handled test has the form `failed with "..."`.
Wrapped(msg) == msg # <<>> /\ Head(msg) = "failed with \""

\* C14: the `failed with "..."` form is given only to failing tests that have
\* no captured context and whose error is not an AssertionError; a failing
\* test with a context has the message the formatter rebuilt, and no more.
RewriteOnlyWithoutContext ==
    \A k \in 1..Len(api.errors) :
        api.errors[k].type = "test" =>
            LET e == api.errors[k].error
            IN  /\ Wrapped(e.message) => (~e.powerAssertContext /\ e.name # "AssertionError")
                /\ e.powerAssertContext =>
                       e.message = IF e.originalMessage # <<>>
                                   THEN e.originalMessage \o <<" ">> \o formatter(e)
                                   ELSE formatter(e)

\* C15: a failing test whose context the formatter cannot render is handled
\* all the same: no error leaves the handler, and the test is in the error
\* list, with the message it came with, as soon as it has been sent.
FormatterFailureKeepsTest ==
    \A r \in Slots : \A i \in 1..cl[r].files : \A j \in 1..Len(cl[r].sess[i].sent) :
        LET t == cl[r].sess[i].sent[j]
        IN  (t.error.present /\ t.error.powerAssertContext /\ formatterThrows(t.error)) =>
                /\ out.thrown = 0
                /\ \E k \in 1..Len(api.errors) :
                       /\ api.errors[k].type = "test"
                       /\ api.errors[k].file = i
                       /\ api.errors[k].title = prefixTitle(api, i) \o t.title
                       /\ api.errors[k].error.message = t.error.message

\* The `test` events the forked files of a run have sent so far.
RECURSIVE TestsSent(_)
TestsSent(ss) ==
    IF ss = <<>> THEN 0 ELSE Len(Head(ss).sent) + TestsSent(Tail(ss))

\* C16: every `test` event a forked file sends is emitted again once, and put
\* once on the error list when the test failed; its handling throws nothing
\* and counts no rejection and no exception.
TestHandledOnce ==
    \A r \in Slots :
        cl[r].phase # "idle" =>
            /\ out.thrown = 0
            /\ out.tests = TestsSent(cl[r].sess)
            /\ Cardinality({k \in 1..Len(api.errors) : api.errors[k].type = "test"})
                   = FailuresSent(cl[r].sess)
            /\ api.rejectionCount = 0
            /\ api.exceptionCount = OwnExceptions(r)

\* C17: the title of every `test` event emitted is the title the forked file
\* sent with the prefix of its file put before it once; run() called without
\* patterns and having dispatched exactly one file, the prefix is empty and
\* the title emitted is the title sent.
PrefixedOnce ==
    out.tests >= 1 =>
        /\ out.times = 1
        /\ \E r \in Slots :
               /\ out.last.file \in 1..cl[r].files
               /\ \E j \in 1..Len(cl[r].sess[out.last.file].sent) :
                      out.before = cl[r].sess[out.last.file].sent[j]
        /\ IF api.fileCount = 1 /\ ~api.explicitTitles
           THEN out.last.title = out.before.title
           ELSE out.last.title = <<FileName[out.last.file], Separator>> \o out.before.title
        /\ \A k \in 1..Len(api.errors) :
               api.errors[k].type = "test" =>
                   \E n \in 1..MaxTests :
                       api.errors[k].title =
                           IF api.fileCount = 1 /\ ~api.explicitTitles
                           THEN <<TitleName[n]>>
                           ELSE <<FileName[api.errors[k].file], Separator, TitleName[n]>>

\* The single file of a run() called without patterns has had a failing test
\* emitted under the title it was sent with.
PrefixedOnceWitness ==
    /\ api.fileCount = 1 /\ ~api.explicitTitles
    /\ out.tests >= 1
    /\ out.last.error.present
    /\ out.last.title = out.before.title
    /\ Len(api.errors) >= 1

\* The positions of the error list holding a rejection / a rejection of the
\* given file.
RejectionEntries == {k \in 1..Len(api.errors) : api.errors[k].type = "rejection"}

RejectionsOf(file) == {k \in RejectionEntries : api.errors[k].file = file}

\* The failure of file i of run r has been caught and recorded.
Caught(r, i) ==
    \E m \in 1..Len(cl[r].results) :
        i <= Len(cl[r].results[m].res) /\ cl[r].results[m].res[i].caught

ReadyAndRunAtMostOnce ==
    \A r \in Slots :
        /\ cl[r].readyEmits <= 1
        /\ Len(cl[r].results) <= 1
        /\ \A i \in 1..cl[r].files : cl[r].sess[i].runCalls <= 1

\* A run of two files has resolved after one of them signalled twice, by its
\* `stats` and by its failure, the failure coming after the barrier: `ready`
\* was emitted once and run() called once on each file.
ReadyAndRunAtMostOnceWitness ==
    \E r \in Slots :
        /\ Finished(r)
        /\ cl[r].files = 2
        /\ cl[r].statsCount > cl[r].files
        /\ \E i \in Failed(r) : cl[r].sess[i].stats /\ cl[r].sess[i].sent # <<>>
        /\ cl[r].readyEmits = 1
        /\ \A i \in 1..cl[r].files : cl[r].sess[i].runCalls = 1

\* Every mapper of run r has returned.
Joined(r) ==
    /\ \A i \in 1..cl[r].files : cl[r].sess[i].promise # "pending"
    /\ \A m \in 1..Len(cl[r].results) : AllSettled(cl[r].results[m])

====
